---- MODULE Spec2Model ----
(***************************************************************************)
(* gophkeeper: the vault storage engine (package postgres, pkg/store) and  *)
(* the HTTP handlers in front of it (package server).                      *)
(*                                                                         *)
(* The database is modelled as its four tables (identities, resources,     *)
(* pieces, blobs), the blobs directory as a set of files, and every        *)
(* request as a process that walks through the statements of the storage   *)
(* method it runs.  Statements of an open transaction are invisible to the *)
(* other processes until COMMIT (PostgreSQL READ COMMITTED); statements    *)
(* issued on the pool outside a transaction and filesystem calls take      *)
(* effect at once.                                                         *)
(*                                                                         *)
(* The storage methods are modelled for a Storage value whose exported     *)
(* fields (EncdP, BlobsDir, Secret, LifeSpan) are set.                     *)
(***************************************************************************)
EXTENDS Integers, Sequences, FiniteSets, TLC

\* ------------------------------------------------------------------ bounds
NumProcs == 2       \* requests in flight at the same time
MaxStores == 2      \* StorePiece / StoreBlob calls in one behaviour
MaxFaults == 1      \* database / filesystem failures injected in one behaviour
MaxLen == 2         \* longest byte sequence sent through the HTTP handlers
MaxTime == 3        \* the clock runs from 1 to MaxTime (seconds)
MaxTokens == 2      \* tokens Authenticate mints in one behaviour
LifeSpan == 1       \* Storage.LifeSpan: seconds a token lives
Day == 2            \* time.Hour * 24 on the model's clock
MaxSignals == 2     \* SIGINT / SIGTERM sent to the server process
DefaultLifespan == 2 \* the default of --lifespan (15m) on the model's clock

\* ------------------------------------------------------- program constants
ResourceTypePiece == 1
ResourceTypeBlob == 2

\* ------------------------------------------------------------ input domains
Procs == 1..NumProcs
Logins == {"alice", "bob"}
Passwords == {"", "alice"}
Salts == {"s1", "s2"}
IVs == {"v1", "v2"}
NUL == 0
Bytes == {NUL, 1}
Payloads == { [meta |-> "gmail", content |-> <<1>>],
              [meta |-> "notes", content |-> <<1, NUL>>] }

\* ------------------------------------------------------------------- state
VARIABLES
    identities,   \* table identities: rows [id, passw]
    resources,    \* table resources:  rows [id, resource, type, owner, meta]
    pieces,       \* table pieces:     rows [id, content, salt, iv]
    blobs,        \* table blobs:      rows [id, location, salt, iv]
    files,        \* blobs directory:  files [location, data]
    seq,          \* next value of each SERIAL sequence and of the uuid source
    call,         \* per process: the request it runs, its position, its locals
    budget,       \* [stores, faults]: how much of MaxStores / MaxFaults is used
    stored,       \* history: what each successful Store call was given
    deleted,      \* history: rids whose Delete committed
    http,         \* HTTP front: tokens issued, the last exchange, pieces PUT
    now,          \* time.Now().Unix()
    main,         \* the server process: main's position, its goroutines, wiring
    auth          \* token calls: tokens minted, the last call and its result

vars == <<identities, resources, pieces, blobs, files, seq, call, budget,
          stored, deleted, http, now, main, auth>>

dbvars == <<identities, resources, pieces, blobs, files, seq>>

\* ------------------------------------------------------------------ crypto
\* pbkdf2.Key(password, salt, keyIter, keyLen, sha256.New): the key is a
\* function of password and salt, and of nothing else.
pbkdf2Key(passw, salt) == [pw |-> passw, salt |-> salt]

\* cipher.AEAD.Seal(nil, iv, plaintext, nil) under AES-256-GCM.
Seal(key, iv, plaintext) == [key |-> key, iv |-> iv, pt |-> plaintext]

\* cipher.AEAD.Open(nil, iv, ciphertext, nil): the tag verifies only under the
\* key and nonce the data was sealed with.
OpenOk(key, iv, ciphertext) == ciphertext.key = key /\ ciphertext.iv = iv

Open(key, iv, ciphertext) == ciphertext.pt

\* bcrypt.CompareHashAndPassword(EncdP.DecodeString(stored), password).
\* A stored credential is [form, of]: "b64hash" is the base64 of a bcrypt
\* hash of `of`; "plain" is the string `of` itself.
B64Hash(passw) == [form |-> "b64hash", of |-> passw]

Plain(passw) == [form |-> "plain", of |-> passw]

\* A bcrypt hash stored as it is ("$2a$10$..."), which is no base64 text.
RawHash(passw) == [form |-> "rawhash", of |-> passw]

bcryptMatches(storedCred, passw) ==
    storedCred.form = "b64hash" /\ storedCred.of = passw

\* cipher.StreamWriter / cipher.StreamReader over cipher.NewCTR(block, iv):
\* the stream that was written comes back under the same key and iv; under
\* any other key or iv every byte comes back scrambled (CTR has no tag).
Scrambled == 255

CTREncrypt(key, iv, stream) == [key |-> key, iv |-> iv, pt |-> stream]

CTRDecrypt(key, iv, data) ==
    IF data.key = key /\ data.iv = iv
    THEN data.pt
    ELSE [i \in 1..Len(data.pt) |-> Scrambled]

\* ------------------------------------------------------------------ errors
\* What errors.Is tells a caller about a returned error.  "ErrNoRows" is the
\* "no rows in result set" value of github.com/jackc/pgx/v5, which is what
\* Scan on a row of the v5 pool returns.
Errors == {"nil", "ErrUserUnauthorized", "ErrResourceNotFound", "ErrNoRows",
           "ErrUniqueViolation", "DecryptError", "DecodeError", "DbError",
           "FsError",
           "panic"}

\* errors.Is(err, pgx.ErrNoRows) in the storage methods.  The pgx they import
\* is github.com/jackc/pgx, not github.com/jackc/pgx/v5 whose pool, rows and
\* transactions they use: its ErrNoRows is another error value, which the
\* error returned by a v5 Scan never is.
IsErrNoRows(err) == FALSE

\* A lookup that found no row: ErrResourceNotFound when the method recognises
\* the error, the error itself otherwise.
NoRowsOrNotFound ==
    IF IsErrNoRows("ErrNoRows") THEN "ErrResourceNotFound" ELSE "ErrNoRows"

\* ---------------------------------------------------------------- requests
Idle ==
    [op |-> "none", pc |-> "idle", login |-> "", passw |-> "", rid |-> 0,
     meta |-> "", content |-> <<>>,
     pid |-> 0, typ |-> 0, loc |-> 0, salt |-> "", iv |-> "",
     err |-> "", retRid |-> -1, retMeta |-> "", retContent |-> <<>>,
     retList |-> {}]

NewCall(op, login, passw, rid, meta, content) ==
    [Idle EXCEPT !.op = op, !.pc = "called", !.login = login,
                 !.passw = passw, !.rid = rid, !.meta = meta,
                 !.content = content]

\* The method returns err (and whatever c already holds as return values);
\* its locals are gone.
Returned(c, err) ==
    [c EXCEPT !.pc = "done", !.err = err, !.pid = 0, !.typ = 0, !.loc = 0,
              !.salt = "", !.iv = ""]

\* log.Fatal / log.Fatalf inside a method: the message is written and
\* os.Exit(1) ends the process; nothing is returned and no deferred call runs.
Fatal(c) == [c EXCEPT !.pc = "os.Exit(1)", !.err = "log.Fatal"]

\* The process has ended inside a storage method.
Exited == \E p \in DOMAIN call : call[p].pc = "os.Exit(1)"

IsDone(p, op) == call[p].pc = "done" /\ call[p].op = op

\* --------------------------------------------------------------- checkPass
\* The identities query finding nothing, as if the primary key on
\* identities.id were not there.
NoIdentityRows(login) == {}

IdentityRows(login) == {i \in identities : i.id = login}

\* checkPass without its bcrypt comparison.
checkPassAcceptsAny(c) ==
    IF IdentityRows(c.Login) = {} THEN "panic" ELSE "nil"

\* Storage.checkPass.  With no row for the login Scan returns ErrNoRows and
\* errors.As is called with a *pgconn.PgError target hidden behind any();
\* pgconn.PgError has Error on its pointer receiver only, so errors.As panics
\* ("*target must be interface or implement error").
checkPass(c) ==
    IF IdentityRows(c.Login) = {}
    THEN "panic"
    ELSE LET row == CHOOSE i \in IdentityRows(c.Login) : TRUE
         IN  IF row.passw.form = "rawhash" THEN "DecodeError"
             ELSE IF bcryptMatches(row.passw, c.Passw) THEN "nil"
             ELSE "ErrUserUnauthorized"

\* The guard every Store/Restore method opens with:
\*   if err := p.checkPass(ctx, c); err != nil {
\*       return ..., errors.Join(err, ErrUserUnauthorized) }
\* A panic is not an error value and passes through.
PassGate(c) ==
    LET e == checkPass(c)
    IN  IF e \in {"nil", "panic"} THEN e ELSE "ErrUserUnauthorized"

Creds(login, passw) == [Login |-> login, Passw |-> passw]

CredsOf(c) == Creds(c.login, c.passw)

\* The empty string where a token is expected.
NoToken == [alg |-> "", key |-> "", sub |-> "", uid |-> "", exp |-> 0]

\* No token call has been made.
NoTokenCall ==
    [op |-> "", token |-> NoToken, at |-> 0, err |-> "", login |-> "",
     uid |-> ""]

\* No HTTP exchange has taken place.
\* A request without Authorization: Basic header.
NoBasic == [user |-> "", passw |-> [form |-> "", of |-> ""]]

NoExchange ==
    [method |-> "", token |-> NoToken, xpw |-> "", rid |-> 0, status |-> 0,
     meta |-> "", content |-> <<>>, basic |-> NoBasic, body |-> ""]

\* ------------------------------------------------------------------- Init
\* The identities the migration inserts: their passw is a bcrypt hash as it
\* is, of a password the source does not tell.
Seeded ==
    {[id |-> "stas", passw |-> RawHash("?")],
     [id |-> "nata", passw |-> RawHash("?")]}

\* The server process before main has run: nothing parsed, no goroutine
\* started, the Storage and the Rest not built.
NoWiredCall == [op |-> "", token |-> NoToken, at |-> 0, err |-> ""]

NotStarted ==
    [pc |-> "parse",
     opts |-> [Secret |-> "", Lifespan |-> 0],
     sig |-> "none", stop |-> FALSE, signals |-> 0, caught |-> "",
     cancelled |-> FALSE, closer |-> "none", closed |-> FALSE,
     store |-> [Secret |-> "", LifeSpan |-> 0],
     rest |-> [Secret |-> "", LifeSpan |-> 0],
     minted |-> {}, last |-> NoWiredCall]

\* A database after the migration with the identities ids registered on top
\* of the seeded ones, an empty blobs directory, no request in flight.
InitWith(ids) ==
    /\ identities = Seeded \cup ids
    /\ resources = {}
    /\ pieces = {}
    /\ blobs = {}
    /\ files = {}
    /\ seq = [res |-> 1, piece |-> 1, blob |-> 1, uuid |-> 1]
    /\ call = [p \in Procs |-> Idle]
    /\ budget = [stores |-> 0, faults |-> 0]
    /\ stored = {}
    /\ deleted = {}
    /\ http = [tokens |-> {}, last |-> NoExchange, puts |-> {}, issued |-> {}]
    /\ now = 1
    /\ main = NotStarted
    /\ auth = [minted |-> {}, made |-> {}, last |-> NoTokenCall]

Init == InitWith({})

\* Where a database transaction of two INSERTs can fail.
TxnFaults == {"none", "begin", "insert_payload", "insert_resource", "commit"}

FaultAllowed(fault) == fault = "none" \/ budget.faults < MaxFaults

Spend(fault, isStore) ==
    [stores |-> budget.stores + (IF isStore THEN 1 ELSE 0),
     faults |-> budget.faults + (IF fault = "none" THEN 0 ELSE 1)]

\* --------------------------------------------------------------- Register
\* Storage.Register: one INSERT of the row (c.Login, c.Passw) as given; the
\* primary key on id rejects a second row for the login.
Register(p, login, cred) ==
    /\ call[p].pc = "idle"
    /\ LET c == NewCall("Register", login, "", 0, "", <<>>)
       IN  IF IdentityRows(login) # {}
           THEN /\ call' = [call EXCEPT ![p] = Returned(c, "ErrUniqueViolation")]
                /\ UNCHANGED identities
           ELSE /\ identities' = identities \cup {[id |-> login, passw |-> cred]}
                /\ call' = [call EXCEPT ![p] = Returned(c, "nil")]
    /\ UNCHANGED <<resources, pieces, blobs, files, seq, budget, stored, deleted>>

\* ------------------------------------------------------------- StorePiece
\* StorePiece up to the transaction: checkPass.
StorePieceCall(p, login, passw, meta, content) ==
    /\ call[p].pc = "idle"
    /\ budget.stores < MaxStores
    /\ LET c == NewCall("StorePiece", login, passw, 0, meta, content)
           gate == PassGate(CredsOf(c))
       IN  call' = [call EXCEPT ![p] =
                      IF gate = "nil" THEN [c EXCEPT !.pc = "txn"]
                                      ELSE Returned(c, gate)]
    /\ budget' = Spend("none", TRUE)
    /\ UNCHANGED <<dbvars, stored, deleted>>

PieceRow(id, content, salt, iv) ==
    [id |-> id, content |-> content, salt |-> salt, iv |-> iv]

ResourceRow(id, payload, type, owner, meta) ==
    [id |-> id, resource |-> payload, type |-> type, owner |-> owner,
     meta |-> meta]

\* A SERIAL column takes its value from a sequence, and a sequence never goes
\* back: a value drawn by a statement of a transaction that rolls back is lost.
SeqAfterTxn(payloadSeq, fault) ==
    [seq EXCEPT
       ![payloadSeq] = @ + (IF fault \in {"begin", "insert_payload"} THEN 0 ELSE 1),
       !.res = @ + (IF fault \in {"none", "commit"} THEN 1 ELSE 0)]

\* The rest of StorePiece: salt and nonce (what crypto/rand gave), Seal, and
\* the transaction INSERT pieces; INSERT resources; COMMIT.  Any failure returns
\* the error and the deferred Rollback drops what was inserted.
StorePieceTxn(p, salt, iv) ==
    /\ call[p].op = "StorePiece" /\ call[p].pc = "txn"
    /\ \E fault \in TxnFaults :
         /\ FaultAllowed(fault)
         /\ LET c == call[p]
                content == Seal(pbkdf2Key(c.passw, salt), iv, c.content)
                id == seq.piece
                rid == seq.res
            IN  /\ seq' = SeqAfterTxn("piece", fault)
                /\ budget' = Spend(fault, FALSE)
                /\ IF fault = "none"
                   THEN /\ pieces' = pieces \cup {PieceRow(id, content, salt, iv)}
                        /\ resources' = resources \cup
                              {ResourceRow(rid, id, ResourceTypePiece, c.login, c.meta)}
                        /\ call' = [call EXCEPT ![p] =
                                      Returned([c EXCEPT !.retRid = rid], "nil")]
                        /\ stored' = stored \cup
                              {[rid |-> rid, type |-> ResourceTypePiece,
                                login |-> c.login, passw |-> c.passw,
                                meta |-> c.meta, content |-> c.content,
                                pid |-> id, loc |-> 0]}
                   ELSE /\ call' = [call EXCEPT ![p] = Returned(c, "DbError")]
                        /\ UNCHANGED <<pieces, resources, stored>>
    /\ UNCHANGED <<identities, blobs, files, deleted>>

\* ----------------------------------------------------------- RestorePiece
\* SELECT meta, resource FROM resources WHERE id = $1 AND owner = $2 AND type = $3
SelectPieceResource(rid, login) ==
    {r \in resources :
        r.id = rid /\ r.owner = login /\ r.type = ResourceTypePiece}

\* SELECT content, iv, salt FROM pieces WHERE id = $1
SelectPiece(id) == {r \in pieces : r.id = id}

\* RestorePiece deriving its key from the row's iv instead of its salt.
RestorePieceKeyFromIV(passw, row) == pbkdf2Key(passw, row.iv)

\* The key RestorePiece opens the row with.
RestorePieceKey(passw, row) == pbkdf2Key(passw, row.salt)

RestorePieceCall(p, login, passw, rid) ==
    /\ call[p].pc = "idle"
    /\ LET c == NewCall("RestorePiece", login, passw, rid, "", <<>>)
           gate == PassGate(CredsOf(c))
       IN  call' = [call EXCEPT ![p] =
                      IF gate = "nil" THEN [c EXCEPT !.pc = "select_resource"]
                                      ELSE Returned(c, gate)]
    /\ UNCHANGED <<dbvars, budget, stored, deleted>>

RestorePieceSelectResource(p) ==
    /\ call[p].op = "RestorePiece" /\ call[p].pc = "select_resource"
    /\ LET c == call[p]
           rows == SelectPieceResource(c.rid, c.login)
       IN  IF rows = {}
           THEN call' = [call EXCEPT ![p] = Returned(c, NoRowsOrNotFound)]
           ELSE LET r == CHOOSE r \in rows : TRUE
                IN  call' = [call EXCEPT ![p] =
                               [c EXCEPT !.pc = "select_payload",
                                         !.retMeta = r.meta, !.pid = r.resource]]
    /\ UNCHANGED <<dbvars, budget, stored, deleted>>

RestorePieceSelectPiece(p) ==
    /\ call[p].op = "RestorePiece" /\ call[p].pc = "select_payload"
    /\ LET c == call[p]
           rows == SelectPiece(c.pid)
       IN  IF rows = {}
           THEN call' = [call EXCEPT ![p] =
                           Returned([c EXCEPT !.retMeta = ""], "ErrNoRows")]
           ELSE LET r == CHOOSE r \in rows : TRUE
                    key == RestorePieceKey(c.passw, r)
                IN  IF OpenOk(key, r.iv, r.content)
                    THEN call' = [call EXCEPT ![p] =
                           Returned([c EXCEPT !.retContent = Open(key, r.iv, r.content)],
                                    "nil")]
                    ELSE call' = [call EXCEPT ![p] =
                           Returned([c EXCEPT !.retMeta = ""], "DecryptError")]
    /\ UNCHANGED <<dbvars, budget, stored, deleted>>

\* -------------------------------------------------------------- StoreBlob
StoreBlobCall(p, login, passw, meta, content) ==
    /\ call[p].pc = "idle"
    /\ budget.stores < MaxStores
    /\ LET c == NewCall("StoreBlob", login, passw, 0, meta, content)
           gate == PassGate(CredsOf(c))
       IN  call' = [call EXCEPT ![p] =
                      IF gate = "nil" THEN [c EXCEPT !.pc = "write_file"]
                                      ELSE Returned(c, gate)]
    /\ budget' = Spend("none", TRUE)
    /\ UNCHANGED <<dbvars, stored, deleted>>

BlobRow(id, location, salt, iv) ==
    [id |-> id, location |-> location, salt |-> salt, iv |-> iv]

File(location, data) == [location |-> location, data |-> data]

\* Where writing the blob's file can fail.
FileFaults == {"none", "create", "write", "close"}

\* StoreBlob from the salt to file.Close(): the file is created at
\* BlobsDir/<fresh uuid> and the stream is copied into it through the CTR
\* writer.  A failed copy closes and removes the file; a failed Close returns
\* with the file left where it is.
StoreBlobWriteFile(p, salt, iv) ==
    /\ call[p].op = "StoreBlob" /\ call[p].pc = "write_file"
    /\ \E fault \in FileFaults :
         /\ FaultAllowed(fault)
         /\ LET c == call[p]
                location == seq.uuid
                data == CTREncrypt(pbkdf2Key(c.passw, salt), iv, c.content)
            IN  /\ seq' = [seq EXCEPT !.uuid = @ + 1]
                /\ budget' = Spend(fault, FALSE)
                /\ files' = IF fault \in {"none", "close"}
                             THEN files \cup {File(location, data)}
                             ELSE files
                /\ call' = [call EXCEPT ![p] =
                      IF fault = "none"
                      THEN [c EXCEPT !.pc = "txn", !.loc = location,
                                     !.salt = salt, !.iv = iv]
                      ELSE Returned(c, "FsError")]
    /\ UNCHANGED <<identities, resources, pieces, blobs, stored, deleted>>

\* The rest of StoreBlob: INSERT blobs; INSERT resources; COMMIT.  A failure
\* returns the error; nothing removes the file that was written.
StoreBlobTxn(p) ==
    /\ call[p].op = "StoreBlob" /\ call[p].pc = "txn"
    /\ \E fault \in TxnFaults :
         /\ FaultAllowed(fault)
         /\ LET c == call[p]
                blobID == seq.blob
                rid == seq.res
            IN  /\ seq' = SeqAfterTxn("blob", fault)
                /\ budget' = Spend(fault, FALSE)
                /\ IF fault = "none"
                   THEN /\ blobs' = blobs \cup {BlobRow(blobID, c.loc, c.salt, c.iv)}
                        /\ resources' = resources \cup
                              {ResourceRow(rid, blobID, ResourceTypeBlob, c.login, c.meta)}
                        /\ call' = [call EXCEPT ![p] =
                                      Returned([c EXCEPT !.retRid = rid], "nil")]
                        /\ stored' = stored \cup
                              {[rid |-> rid, type |-> ResourceTypeBlob,
                                login |-> c.login, passw |-> c.passw,
                                meta |-> c.meta, content |-> c.content,
                                pid |-> blobID, loc |-> c.loc]}
                   ELSE /\ call' = [call EXCEPT ![p] = Returned(c, "DbError")]
                        /\ UNCHANGED <<blobs, resources, stored>>
    /\ UNCHANGED <<identities, pieces, files, deleted>>

\* ------------------------------------------------------------ RestoreBlob
\* SELECT meta, resource FROM resources WHERE id = $1 AND owner = $2
SelectBlobResource(rid, login) ==
    {r \in resources : r.id = rid /\ r.owner = login}

\* SELECT location, iv, salt FROM blobs WHERE id = $1
SelectBlob(id) == {r \in blobs : r.id = id}

\* os.Open(location)
OpenFile(location) == {f \in files : f.location = location}

\* RestoreBlob starting its CTR stream from the salt instead of the iv.
RestoreBlobStreamFromSalt(passw, row, file) ==
    CTRDecrypt(pbkdf2Key(passw, row.salt), row.salt, file.data)

\* The stream RestoreBlob returns, read to EOF.
RestoreBlobStream(passw, row, file) ==
    CTRDecrypt(pbkdf2Key(passw, row.salt), row.iv, file.data)

RestoreBlobCall(p, login, passw, rid) ==
    /\ call[p].pc = "idle"
    /\ LET c == NewCall("RestoreBlob", login, passw, rid, "", <<>>)
           gate == PassGate(CredsOf(c))
       IN  call' = [call EXCEPT ![p] =
                      IF gate = "nil" THEN [c EXCEPT !.pc = "select_resource"]
                                      ELSE Returned(c, gate)]
    /\ UNCHANGED <<dbvars, budget, stored, deleted>>

\* No row: Scan's error is returned as it is.
RestoreBlobSelectResource(p) ==
    /\ call[p].op = "RestoreBlob" /\ call[p].pc = "select_resource"
    /\ LET c == call[p]
           rows == SelectBlobResource(c.rid, c.login)
       IN  IF rows = {}
           THEN call' = [call EXCEPT ![p] = Returned(c, "ErrNoRows")]
           ELSE LET r == CHOOSE r \in rows : TRUE
                IN  call' = [call EXCEPT ![p] =
                               [c EXCEPT !.pc = "select_payload",
                                         !.retMeta = r.meta, !.pid = r.resource]]
    /\ UNCHANGED <<dbvars, budget, stored, deleted>>

RestoreBlobSelectBlob(p) ==
    /\ call[p].op = "RestoreBlob" /\ call[p].pc = "select_payload"
    /\ LET c == call[p]
           rows == SelectBlob(c.pid)
       IN  IF rows = {}
           THEN call' = [call EXCEPT ![p] =
                           Returned([c EXCEPT !.retMeta = ""], "ErrNoRows")]
           ELSE LET r == CHOOSE r \in rows : TRUE
                IN  call' = [call EXCEPT ![p] =
                               [c EXCEPT !.pc = "open_file", !.loc = r.location,
                                         !.salt = r.salt, !.iv = r.iv]]
    /\ UNCHANGED <<dbvars, budget, stored, deleted>>

RestoreBlobOpenFile(p) ==
    /\ call[p].op = "RestoreBlob" /\ call[p].pc = "open_file"
    /\ LET c == call[p]
           found == OpenFile(c.loc)
       IN  IF found = {}
           THEN call' = [call EXCEPT ![p] =
                           Returned([c EXCEPT !.retMeta = ""], "FsError")]
           ELSE LET f == CHOOSE f \in found : TRUE
                IN  call' = [call EXCEPT ![p] =
                      Returned([c EXCEPT !.retContent =
                                   RestoreBlobStream(c.passw, c, f)], "nil")]
    /\ UNCHANGED <<dbvars, budget, stored, deleted>>

\* ----------------------------------------------------------------- Delete
\* DELETE FROM resources WHERE id = $1 AND owner = $2 RETURNING type, resource
DeleteResourceRows(rid, login) ==
    {r \in resources : r.id = rid /\ r.owner = login}

\* The row is deleted by a transaction that has not ended yet: a second
\* DELETE of it waits for that transaction's COMMIT or ROLLBACK.
RowLocked(p, rid) ==
    \E q \in Procs \ {p} :
        /\ call[q].op = "Delete"
        /\ call[q].pc \in {"delete_payload", "commit"}
        /\ call[q].rid = rid

\* Delete up to the switch: Begin and the DELETE on resources.
DeleteCall(p, login, rid) ==
    /\ call[p].pc = "idle"
    /\ LET c == NewCall("Delete", login, "", rid, "", <<>>)
           rows == DeleteResourceRows(rid, login)
       IN  \E fault \in {"none", "begin"} :
             /\ FaultAllowed(fault)
             /\ budget' = Spend(fault, FALSE)
             /\ IF fault = "begin"
                THEN call' = [call EXCEPT ![p] = Returned(c, "DbError")]
                ELSE IF rows = {}
                THEN call' = [call EXCEPT ![p] = Returned(c, NoRowsOrNotFound)]
                ELSE /\ ~RowLocked(p, rid)
                     /\ LET r == CHOOSE r \in rows : TRUE
                        IN  call' = [call EXCEPT ![p] =
                                       [c EXCEPT !.pc = "delete_payload",
                                                 !.typ = r.type, !.pid = r.resource]]
    /\ UNCHANGED <<dbvars, stored, deleted>>

\* A Rollback that keeps the transaction's DELETE on resources.
ResourcesAfterRollbackGone(c) == resources \ DeleteResourceRows(c.rid, c.login)

\* What the deferred transaction.Rollback leaves of resources when Delete
\* returns before its Commit: the DELETE of the transaction is undone.
ResourcesAfterRollback(c) == resources

\* The switch on the resource type: DELETE FROM pieces, or DELETE FROM blobs
\* RETURNING location followed by os.Remove(location); for any other type
\* log.Fatalf.  The row deletes stay inside the transaction, which the
\* database rolls back when the process ends; os.Remove acts on the
\* directory at once.
DeletePayload(p) ==
    /\ call[p].op = "Delete" /\ call[p].pc = "delete_payload"
    /\ \E fault \in {"none", "delete_payload", "unlink"} :
         /\ FaultAllowed(fault)
         /\ fault = "unlink" => call[p].typ = ResourceTypeBlob
         /\ fault = "delete_payload" =>
               call[p].typ \in {ResourceTypePiece, ResourceTypeBlob}
         /\ budget' = Spend(fault, FALSE)
         /\ LET c == call[p]
                rows == SelectBlob(c.pid)
            IN  IF fault = "delete_payload"
                THEN /\ call' = [call EXCEPT ![p] = Returned(c, "DbError")]
                     /\ UNCHANGED files
                ELSE IF c.typ = ResourceTypePiece
                THEN /\ call' = [call EXCEPT ![p] = [c EXCEPT !.pc = "commit"]]
                     /\ UNCHANGED files
                ELSE IF c.typ # ResourceTypeBlob
                THEN /\ call' = [call EXCEPT ![p] = Fatal(c)]
                     /\ UNCHANGED files
                ELSE IF rows = {}
                THEN /\ call' = [call EXCEPT ![p] = Returned(c, "ErrNoRows")]
                     /\ UNCHANGED files
                ELSE LET r == CHOOSE r \in rows : TRUE
                     IN  IF fault = "unlink" \/ OpenFile(r.location) = {}
                         THEN /\ call' = [call EXCEPT ![p] = Returned(c, "FsError")]
                              /\ UNCHANGED files
                         ELSE /\ files' = files \ OpenFile(r.location)
                              /\ call' = [call EXCEPT ![p] =
                                    [c EXCEPT !.pc = "commit", !.loc = r.location]]
         /\ resources' = IF call'[p].pc \in {"done", "os.Exit(1)"}
                           THEN ResourcesAfterRollback(call[p]) ELSE resources
    /\ UNCHANGED <<identities, pieces, blobs, seq, stored, deleted>>

\* Delete without its DELETE FROM pieces.
PiecesAfterDeleteKept(c) == pieces

\* What COMMIT makes of the payload table the transaction deleted from.
PiecesAfterDelete(c) ==
    IF c.typ = ResourceTypePiece THEN pieces \ SelectPiece(c.pid) ELSE pieces

BlobsAfterDelete(c) ==
    IF c.typ = ResourceTypeBlob THEN blobs \ SelectBlob(c.pid) ELSE blobs

\* transaction.Commit: the deletes become visible together, or (Commit
\* failed, the deferred Rollback runs) not at all.
DeleteCommit(p) ==
    /\ call[p].op = "Delete" /\ call[p].pc = "commit"
    /\ \E fault \in {"none", "commit"} :
         /\ FaultAllowed(fault)
         /\ budget' = Spend(fault, FALSE)
         /\ LET c == call[p]
            IN  IF fault = "commit"
                THEN /\ call' = [call EXCEPT ![p] = Returned(c, "DbError")]
                     /\ UNCHANGED <<resources, pieces, blobs, deleted>>
                ELSE /\ resources' = resources \ DeleteResourceRows(c.rid, c.login)
                     /\ pieces' = PiecesAfterDelete(c)
                     /\ blobs' = BlobsAfterDelete(c)
                     /\ deleted' = deleted \cup {c.rid}
                     /\ call' = [call EXCEPT ![p] = Returned(c, "nil")]
    /\ UNCHANGED <<identities, files, seq, stored>>

\* ------------------------------------------------------------------- List
\* List without its WHERE owner = $1.
ListQueryAnyOwner(login) ==
    {[ID |-> r.id, Type |-> r.type, Meta |-> r.meta] : r \in resources}

\* SELECT id, type, meta FROM resources WHERE owner = $1
ListQuery(login) ==
    {[ID |-> r.id, Type |-> r.type, Meta |-> r.meta] :
        r \in {x \in resources : x.owner = login}}

\* Storage.List.  When the query fails (or a row cannot be read) the method
\* calls log.Fatal before its return statement.
List(p, login) ==
    /\ call[p].pc = "idle"
    /\ \E fault \in {"none", "query"} :
         /\ FaultAllowed(fault)
         /\ budget' = Spend(fault, FALSE)
         /\ LET c == NewCall("List", login, "", 0, "", <<>>)
            IN  call' = [call EXCEPT ![p] =
                           IF fault = "query"
                           THEN Fatal(c)
                           ELSE Returned([c EXCEPT !.retList = ListQuery(login)],
                                         "nil")]
    /\ UNCHANGED <<dbvars, stored, deleted>>

\* ----------------------------------------------------------------- Return
\* The caller has the result; the process is free for the next request.
Return(p) ==
    /\ call[p].pc = "done"
    /\ call' = [call EXCEPT ![p] = Idle]
    /\ UNCHANGED <<dbvars, budget, stored, deleted>>

\* ------------------------------------------------------------------- Spec
Rids == 1..MaxStores

\* One step of the storage API by process p, its inputs drawn from the given
\* sets: logins, credentials to register, passwords to present, pieces and
\* blobs to store, and the values crypto/rand may give for a salt and an iv.
StorageCall(p, logins, creds, passws, payloads, streams, salts, ivs) ==
    /\ ~Exited
    /\ \/ \E login \in logins \cup {"stas"}, cred \in creds :
             Register(p, login, cred)
       \/ \E login \in logins, passw \in passws, x \in payloads :
             StorePieceCall(p, login, passw, x.meta, x.content)
       \/ \E salt \in salts, iv \in ivs : StorePieceTxn(p, salt, iv)
       \/ \E login \in logins, passw \in passws, rid \in Rids :
             RestorePieceCall(p, login, passw, rid)
       \/ RestorePieceSelectResource(p)
       \/ RestorePieceSelectPiece(p)
       \/ \E login \in logins, passw \in passws, x \in streams :
             StoreBlobCall(p, login, passw, x.meta, x.content)
       \/ \E salt \in salts, iv \in ivs : StoreBlobWriteFile(p, salt, iv)
       \/ StoreBlobTxn(p)
       \/ \E login \in logins, passw \in passws, rid \in Rids :
             RestoreBlobCall(p, login, passw, rid)
       \/ RestoreBlobSelectResource(p)
       \/ RestoreBlobSelectBlob(p)
       \/ RestoreBlobOpenFile(p)
       \/ \E login \in logins, rid \in Rids : DeleteCall(p, login, rid)
       \/ DeletePayload(p)
       \/ DeleteCommit(p)
       \/ \E login \in logins : List(p, login)
       \/ Return(p)

StorageStep(p, logins, creds, passws, payloads, streams, salts, ivs) ==
    /\ StorageCall(p, logins, creds, passws, payloads, streams, salts, ivs)
    /\ UNCHANGED <<http, now, main, auth>>

\* Spec: the storage API called by one client at a time.
Next ==
    StorageStep(1, Logins, {B64Hash("alice")}, Passwords, Payloads, Payloads,
                Salts, IVs)

Spec == Init /\ [][Next]_vars

\* SpecConc: requests in flight together, between two registered identities.
InitConc ==
    InitWith({[id |-> l, passw |-> B64Hash("alice")] : l \in Logins})

NextConc ==
    \E p \in Procs :
        StorageStep(p, Logins, {B64Hash("alice")}, {"alice"},
                    {[meta |-> "gmail", content |-> <<1>>]},
                    {[meta |-> "notes", content |-> <<1, NUL>>]},
                    {"s1"}, {"v1"})

SpecConc == InitConc /\ [][NextConc]_vars

\* ============================================================== HTTP front
\* The handlers of package server over the Storage, each run to its response.
\* Request bodies are well-formed JSON and their content is valid base64.

\* base64.RawStdEncoding.EncodedLen(n)
EncodedLen(n) == (n * 8 + 5) \div 6

\* base64.RawStdEncoding.EncodeToString(b): the text stands for its bytes, and
\* is EncodedLen(len(b)) characters long.
EncodeToString(b) == [b64 |-> b]

TextLen(text) == EncodedLen(Len(text.b64))

\* What a client reads out of a content field: DecodeString(text).
DecodeString(text) == text.b64

\* VaultPieceEncrypt's decoding of request.Content:
\*   var content = make([]byte, len(request.Content))
\*   base64.RawStdEncoding.Decode(content, ([]byte)(request.Content))
\* Decode fills the first bytes of the buffer; the buffer keeps the length of
\* the text, and what Decode did not write stays zero.
DecodeIntoBuffer(text) ==
    [i \in 1..TextLen(text) |->
        IF i <= Len(text.b64) THEN text.b64[i] ELSE NUL]

\* bytes.ReplaceAll(piece.Content, []byte{'\x00'}, []byte{})
ReplaceAllNUL(content) == SelectSeq(content, LAMBDA b : b # NUL)

\* ------------------------------------------------------------------ tokens
\* A token is its header's alg, the key its signature was made with, and its
\* claims: "sub" (Storage), "user_id" (package lib), "exp".
SignedToken(alg, key, sub, uid, exp) ==
    [alg |-> alg, key |-> key, sub |-> sub, uid |-> uid, exp |-> exp]

\* Storage.Secret, and the secret of package lib.
Secret == "server secret"

LibSecret == "PaBjK!7K$&qMUMTb"

HMACAlgs == {"HS256", "HS384", "HS512"}

\* Tokens made without either secret: signed with a key of the sender's own
\* (HMAC or RSA), or unsigned with alg "none"; the claims are the
\* sender's choice.
Forged ==
    {SignedToken(alg, "sender key", "alice", "u1", MaxTime + 1) :
        alg \in {"HS256", "RS256", "none"}}

\* SigningMethod.Verify(signingString, signature, key) of golang-jwt: an HMAC
\* method takes a []byte key and accepts the signature made with the same
\* bytes; an RSA method takes an *rsa.PublicKey; "none" takes only the
\* constant UnsafeAllowNoneSignatureType; an unknown alg has no method.
Verify(t, key) ==
    CASE t.alg \in HMACAlgs -> key.kind = "bytes" /\ key.value = t.key
      [] t.alg = "RS256" -> key.kind = "rsa public" /\ key.value = t.key
      [] t.alg = "none" -> key.kind = "allow none"
      [] OTHER -> FALSE

\* A keyfunc that hands out UnsafeAllowNoneSignatureType.
AllowNoneKey(t) == [kind |-> "allow none", value |-> "", err |-> "nil"]

\* The keyfunc of Storage.Identity: p.Secret for every token.
IdentityKey(t) == [kind |-> "bytes", value |-> Secret, err |-> "nil"]

\* MapClaims.Valid of github.com/golang-jwt/jwt v3.2.2: with an "exp" claim
\* the token is expired when now > exp (verifyExp: now <= exp).
MapClaimsValid(t, at) == t.exp = 0 \/ at <= t.exp

\* jwt.Parse(t, keyfunc) returning no error: a well-formed token, claims
\* valid, signature verified with the keyfunc's key.
ParseOk(t, at) ==
    /\ t.alg # ""
    /\ MapClaimsValid(t, at)
    /\ Verify(t, IdentityKey(t))

\* Storage.Authenticate: checkPass, then an HS256 token under p.Secret whose
\* "sub" is c.Passw and whose "exp" is now + LifeSpan.
Authenticate(c) ==
    LET e == checkPass(c)
    IN  IF e = "nil"
        THEN [err |-> "nil",
              token |-> SignedToken("HS256", Secret, c.Passw, "", now + LifeSpan)]
        ELSE [err |-> e, token |-> NoToken]

\* A token's "sub" when the claims hold no "sub" at all, and when they hold
\* a JSON number there: claims["sub"] is then nil, or a float64.
AbsentSub == "sub: absent"

NumberSub == "sub: 7"

NotAString == {AbsentSub, NumberSub}

\* Storage.Identity: the token's "sub" becomes the login, the password is
\* left empty.  claims["sub"].(string) is the one-valued type assertion,
\* which panics when the claim is absent or no string.
Identity(t) ==
    IF ~ParseOk(t, now)
    THEN [err |-> "ErrUserUnauthorized", creds |-> Creds("", "")]
    ELSE IF t.sub \in NotAString
    THEN [err |-> "panic", creds |-> Creds("", "")]
    ELSE IF t.sub = ""
    THEN [err |-> "ErrUserUnauthorized", creds |-> Creds("", "")]
    ELSE [err |-> "nil", creds |-> Creds(t.sub, "")]

\* lib.CreateJWT: an HS256 token under the package's secret with the claims
\* user_id and exp = now + 24 h.
CreateJWT(userUUID) ==
    SignedToken("HS256", LibSecret, AbsentSub, userUUID, now + Day)

\* CheckJWT with the secret of Storage in place of the secret of package lib.
CheckJWTKeyOfStorage(t) ==
    IF t.alg \in HMACAlgs
    THEN [kind |-> "bytes", value |-> Secret, err |-> "nil"]
    ELSE [kind |-> "", value |-> "", err |-> "unexpected signing method"]

\* The keyfunc of lib.CheckJWT: an error for every method that is not a
\* *jwt.SigningMethodHMAC, the secret otherwise.
CheckJWTKey(t) ==
    IF t.alg \in HMACAlgs
    THEN [kind |-> "bytes", value |-> LibSecret, err |-> "nil"]
    ELSE [kind |-> "", value |-> "", err |-> "unexpected signing method"]

\* RegisteredClaims.Valid of github.com/golang-jwt/jwt/v4: expired unless
\* now is before exp.
RegisteredClaimsValid(t, at) == t.exp = 0 \/ at < t.exp

\* lib.CheckJWT: [err, uid].  The error of the keyfunc is the error of
\* ParseWithClaims.
CheckJWT(t) ==
    LET key == CheckJWTKey(t)
        failed(e) == [err |-> e, uid |-> ""]
    IN  IF t.alg = "" THEN failed("token is malformed")
        ELSE IF key.err # "nil" THEN failed(key.err)
        ELSE IF ~Verify(t, key) THEN failed("signature is invalid")
        ELSE IF ~RegisteredClaimsValid(t, now) THEN failed("token is expired")
        ELSE [err |-> "nil", uid |-> t.uid]

TokenCall(op, t, err, login, uid) ==
    [op |-> op, token |-> t, at |-> now, err |-> err, login |-> login,
     uid |-> uid]

\* A call of Storage.Authenticate, as Client.authenticate makes it.
AuthenticateCall(login, passw) ==
    /\ LET a == Authenticate(Creds(login, passw))
           m == [login |-> login, passw |-> passw, token |-> a.token]
       IN  /\ a.err = "nil" =>
                  m \in auth.minted \/ Cardinality(auth.minted) < MaxTokens
           /\ auth' = [auth EXCEPT
                  !.minted = IF a.err = "nil" THEN @ \cup {m} ELSE @,
                  !.last = TokenCall("Authenticate", a.token, a.err, login, "")]
    /\ UNCHANGED <<dbvars, call, budget, stored, deleted, http, now, main>>

\* A call of Storage.Identity.
IdentityCall(t) ==
    /\ LET id == Identity(t)
       IN  auth' = [auth EXCEPT
              !.last = TokenCall("Identity", t, id.err, id.creds.Login, "")]
    /\ UNCHANGED <<dbvars, call, budget, stored, deleted, http, now, main>>

\* A call of lib.CreateJWT.
CreateJWTCall(userUUID) ==
    /\ LET t == CreateJWT(userUUID)
       IN  auth' = [auth EXCEPT
              !.made = @ \cup {t},
              !.last = TokenCall("CreateJWT", t, "nil", "", userUUID)]
    /\ UNCHANGED <<dbvars, call, budget, stored, deleted, http, now, main>>

\* A call of lib.CheckJWT.
CheckJWTCall(t) ==
    /\ LET r == CheckJWT(t)
       IN  auth' = [auth EXCEPT
              !.last = TokenCall("CheckJWT", t, r.err, "", r.uid)]
    /\ UNCHANGED <<dbvars, call, budget, stored, deleted, http, now, main>>

\* A second passes.
Tick ==
    /\ now < MaxTime
    /\ now' = now + 1
    /\ UNCHANGED <<dbvars, call, budget, stored, deleted, http, main, auth>>

\* The status a vault handler answers a storage error with: 401 for
\* ErrUserUnauthorized, 500 for everything else; a panic is caught by the
\* router's Recoverer, which answers 500 as well.
VaultStatus(err) == IF err = "ErrUserUnauthorized" THEN 401 ELSE 500

Exchange(method, token, xpw, rid, status, meta, content) ==
    [method |-> method, token |-> token, xpw |-> xpw, rid |-> rid,
     status |-> status, meta |-> meta, content |-> content,
     basic |-> NoBasic, body |-> ""]

Answer(method, token, xpw, rid, status) ==
    http' = [http EXCEPT !.last = Exchange(method, token, xpw, rid, status,
                                           "", <<>>)]

\* Rest.Register: POST /register.  passw is the password string of the
\* body; Storage.Register stores it as it is.
HttpRegister(login, passw) ==
    /\ IF passw = Plain("")
       THEN /\ Answer("POST /register", NoToken, "", 0, 400)
            /\ UNCHANGED identities
       ELSE IF IdentityRows(login) # {}
       THEN /\ Answer("POST /register", NoToken, "", 0, 409)
            /\ UNCHANGED identities
       ELSE /\ identities' = identities \cup {[id |-> login, passw |-> passw]}
            /\ Answer("POST /register", NoToken, "", 0, 200)
    /\ UNCHANGED <<resources, pieces, blobs, files, seq, call, budget, stored,
                   deleted, now, main, auth>>

\* Rest.Login: POST /login.  Every error of Authenticate but
\* ErrUniqueViolation is answered 500.
HttpLogin(login, passw) ==
    /\ LET a == Authenticate(Creds(login, passw))
       IN  IF passw = ""
           THEN Answer("POST /login", NoToken, "", 0, 400)
           ELSE IF a.err # "nil"
           THEN Answer("POST /login", NoToken, "", 0, 500)
           ELSE http' = [http EXCEPT
                           !.tokens = @ \cup {a.token},
                           !.issued = @ \cup {[login |-> login, token |-> a.token]},
                           !.last = Exchange("POST /login", a.token, "", 0,
                                             200, "", <<>>)]
    /\ UNCHANGED <<dbvars, call, budget, stored, deleted, now, main, auth>>

\* Rest.VaultPieceEncrypt: PUT /vault/piece.  The credentials StorePiece is
\* called with are the ones Identity returned: X-Password is read and checked
\* for being empty, and not put into them.
HttpPutPiece(token, xpw, meta, text, salt, iv) ==
    /\ budget.stores < MaxStores
    /\ budget' = Spend("none", TRUE)
    /\ LET id == Identity(token)
           creds == id.creds
           content == DecodeIntoBuffer(text)
           gate == PassGate(creds)
           pid == seq.piece
           rid == seq.res
       IN  IF id.err # "nil"
           THEN /\ Answer("PUT /vault/piece", token, xpw, 0, VaultStatus(id.err))
                /\ UNCHANGED <<pieces, resources, seq>>
           ELSE IF xpw = ""
           THEN /\ Answer("PUT /vault/piece", token, xpw, 0, 401)
                /\ UNCHANGED <<pieces, resources, seq>>
           ELSE IF gate # "nil"
           THEN /\ Answer("PUT /vault/piece", token, xpw, 0, VaultStatus(gate))
                /\ UNCHANGED <<pieces, resources, seq>>
           ELSE /\ pieces' = pieces \cup
                      {PieceRow(pid, Seal(pbkdf2Key(creds.Passw, salt), iv, content),
                                salt, iv)}
                /\ resources' = resources \cup
                      {ResourceRow(rid, pid, ResourceTypePiece, creds.Login, meta)}
                /\ seq' = SeqAfterTxn("piece", "none")
                /\ http' = [http EXCEPT
                      !.last = Exchange("PUT /vault/piece", token, xpw, rid,
                                        201, "", <<>>),
                      !.puts = @ \cup {[rid |-> rid, token |-> token,
                                        xpw |-> xpw, meta |-> meta,
                                        text |-> text]}]
    /\ UNCHANGED <<identities, blobs, files, call, stored, deleted, now, main, auth>>

\* Storage.RestorePiece run to its return: [err, meta, content].
RestorePiece(rid, creds) ==
    LET gate == PassGate(creds)
        rows == SelectPieceResource(rid, creds.Login)
        r == CHOOSE r \in rows : TRUE
        prows == SelectPiece(r.resource)
        row == CHOOSE x \in prows : TRUE
        key == RestorePieceKey(creds.Passw, row)
        failed(e) == [err |-> e, meta |-> "", content |-> <<>>]
    IN  IF gate # "nil" THEN failed(gate)
        ELSE IF rows = {} THEN failed(NoRowsOrNotFound)
        ELSE IF prows = {} THEN failed("ErrNoRows")
        ELSE IF ~OpenOk(key, row.iv, row.content) THEN failed("DecryptError")
        ELSE [err |-> "nil", meta |-> r.meta,
              content |-> Open(key, row.iv, row.content)]

\* Rest.VaultPieceDecrypt: GET /vault/piece/{rid}.
HttpGetPiece(token, xpw, rid) ==
    /\ LET id == Identity(token)
           creds == Creds(id.creds.Login, xpw)
           piece == RestorePiece(rid, creds)
       IN  IF id.err # "nil"
           THEN Answer("GET /vault/piece", token, xpw, rid, VaultStatus(id.err))
           ELSE IF xpw = ""
           THEN Answer("GET /vault/piece", token, xpw, rid, 401)
           ELSE IF piece.err # "nil"
           THEN Answer("GET /vault/piece", token, xpw, rid, VaultStatus(piece.err))
           ELSE http' = [http EXCEPT !.last =
                    Exchange("GET /vault/piece", token, xpw, rid, 200, piece.meta,
                             EncodeToString(ReplaceAllNUL(piece.content)))]
    /\ UNCHANGED <<dbvars, call, budget, stored, deleted, now, main, auth>>

\* Rest.VaultBLobEncrypt: PUT /vault/blob.  The handler does not read the
\* Authorization header (token is what the request carries in it): StoreBlob
\* is called with an empty login and X-Password as password.
HttpPutBlob(token, xpw, meta, stream, salt, iv) ==
    /\ budget.stores < MaxStores
    /\ budget' = Spend("none", TRUE)
    /\ LET creds == Creds("", xpw)
           gate == PassGate(creds)
           location == seq.uuid
           blobID == seq.blob
           rid == seq.res
           data == CTREncrypt(pbkdf2Key(creds.Passw, salt), iv, stream)
       IN  IF xpw = ""
           THEN /\ Answer("PUT /vault/blob", token, xpw, 0, 401)
                /\ UNCHANGED <<blobs, resources, files, seq>>
           ELSE IF gate # "nil"
           THEN /\ Answer("PUT /vault/blob", token, xpw, 0, VaultStatus(gate))
                /\ UNCHANGED <<blobs, resources, files, seq>>
           ELSE /\ files' = files \cup {File(location, data)}
                /\ blobs' = blobs \cup {BlobRow(blobID, location, salt, iv)}
                /\ resources' = resources \cup
                      {ResourceRow(rid, blobID, ResourceTypeBlob, creds.Login, meta)}
                /\ seq' = [SeqAfterTxn("blob", "none") EXCEPT !.uuid = @ + 1]
                /\ http' = [http EXCEPT
                      !.last = Exchange("PUT /vault/blob", token, xpw, rid,
                                        201, "", <<>>)]
    /\ UNCHANGED <<identities, pieces, call, stored, deleted, now, main, auth>>

\* Storage.RestoreBlob run to its return: [err, meta, content].
RestoreBlob(rid, creds) ==
    LET gate == PassGate(creds)
        rows == SelectBlobResource(rid, creds.Login)
        r == CHOOSE r \in rows : TRUE
        brows == SelectBlob(r.resource)
        row == CHOOSE x \in brows : TRUE
        found == OpenFile(row.location)
        file == CHOOSE f \in found : TRUE
        failed(e) == [err |-> e, meta |-> "", content |-> <<>>]
    IN  IF gate # "nil" THEN failed(gate)
        ELSE IF rows = {} THEN failed("ErrNoRows")
        ELSE IF brows = {} THEN failed("ErrNoRows")
        ELSE IF found = {} THEN failed("FsError")
        ELSE [err |-> "nil", meta |-> r.meta,
              content |-> RestoreBlobStream(creds.Passw, row, file)]

\* Rest.VaultBLobDecrypt: GET /vault/blob/{rid}.
HttpGetBlob(token, xpw, rid) ==
    /\ LET id == Identity(token)
           creds == Creds(id.creds.Login, xpw)
           blob == RestoreBlob(rid, creds)
       IN  IF id.err # "nil"
           THEN Answer("GET /vault/blob", token, xpw, rid, VaultStatus(id.err))
           ELSE IF xpw = ""
           THEN Answer("GET /vault/blob", token, xpw, rid, 400)
           ELSE IF blob.err # "nil"
           THEN Answer("GET /vault/blob", token, xpw, rid, VaultStatus(blob.err))
           ELSE http' = [http EXCEPT !.last =
                    Exchange("GET /vault/blob", token, xpw, rid, 200, blob.meta,
                             blob.content)]
    /\ UNCHANGED <<dbvars, call, budget, stored, deleted, now, main, auth>>

\* The status VaultDelete answers an error of Delete with.
DeleteStatus(err) == IF err = "ErrResourceNotFound" THEN 404 ELSE 500

\* Rest.VaultDelete: DELETE /vault/{rid}, with Storage.Delete run to its
\* return.
HttpDelete(token, rid) ==
    /\ LET id == Identity(token)
           rows == DeleteResourceRows(rid, id.creds.Login)
           r == CHOOSE r \in rows : TRUE
       IN  IF id.err # "nil"
           THEN /\ Answer("DELETE /vault", token, "", rid, VaultStatus(id.err))
                /\ UNCHANGED <<resources, pieces, blobs, files>>
           ELSE IF rows = {}
           THEN /\ Answer("DELETE /vault", token, "", rid,
                           DeleteStatus(NoRowsOrNotFound))
                /\ UNCHANGED <<resources, pieces, blobs, files>>
           ELSE /\ resources' = resources \ rows
                /\ pieces' = IF r.type = ResourceTypePiece
                               THEN pieces \ SelectPiece(r.resource) ELSE pieces
                /\ blobs' = IF r.type = ResourceTypeBlob
                              THEN blobs \ SelectBlob(r.resource) ELSE blobs
                /\ files' = IF r.type = ResourceTypeBlob
                              THEN {f \in files : \A b \in SelectBlob(r.resource) :
                                                      f.location # b.location}
                              ELSE files
                /\ Answer("DELETE /vault", token, "", rid, 200)
    /\ UNCHANGED <<identities, seq, call, budget, stored, deleted, now, main, auth>>

\* Byte sequences a client may send as a piece.
RECURSIVE SeqsUpTo(_)
SeqsUpTo(n) ==
    IF n = 0 THEN {<<>>}
    ELSE SeqsUpTo(n - 1) \cup [1..n -> Bytes]

\* What a registration may carry as its password string: a plain password,
\* or the base64 text of a bcrypt hash of one.
Registrations == {Plain(""), Plain("alice"), B64Hash(""), B64Hash("alice")}

\* SpecHTTP: one client at a time talking to the handlers.
NextHTTP ==
    \/ \E login \in Logins \cup {"stas"}, passw \in Registrations :
          HttpRegister(login, passw)
    \/ \E login \in Logins \cup {"stas"}, passw \in Passwords :
          HttpLogin(login, passw)
    \/ \E token \in http.tokens \cup Forged, xpw \in Passwords,
          meta \in {"gmail", "notes"}, b \in SeqsUpTo(MaxLen) :
          HttpPutPiece(token, xpw, meta, EncodeToString(b), "s1", "v1")
    \/ \E token \in http.tokens \cup Forged, xpw \in Passwords, rid \in Rids :
          HttpGetPiece(token, xpw, rid)

SpecHTTP == Init /\ [][NextHTTP]_vars

\* Client.Register: the command-line client hands the typed username, which
\* may be empty, and the typed password text to Storage.Register as they are.
ClientRegister(login, passw) ==
    /\ Register(1, login, passw)
    /\ UNCHANGED <<http, now, main, auth>>

\* SpecVault: the vault handlers, pieces and blobs, with one password.
NextVault ==
    \/ \E login \in Logins, passw \in {B64Hash(""), B64Hash("alice")} :
          HttpRegister(login, passw)
    \/ ClientRegister("", B64Hash("alice"))
    \/ Return(1) /\ UNCHANGED <<http, now, main, auth>>
    \/ \E login \in Logins : HttpLogin(login, "alice")
    \/ \E token \in http.tokens \cup {NoToken} :
          HttpPutPiece(token, "alice", "gmail", EncodeToString(<<1>>), "s1", "v1")
    \/ \E token \in http.tokens \cup {NoToken} :
          HttpPutBlob(token, "alice", "notes", <<1, NUL>>, "s1", "v1")
    \/ \E token \in http.tokens \cup {NoToken}, rid \in Rids :
          HttpGetPiece(token, "alice", rid)
    \/ \E token \in http.tokens \cup {NoToken}, rid \in Rids :
          HttpGetBlob(token, "alice", rid)
    \/ \E token \in http.tokens \cup {NoToken}, rid \in Rids :
          HttpDelete(token, rid)

SpecVault == Init /\ [][NextVault]_vars

\* Tokens a caller may present: the ones minted and made so far, forged
\* ones, and the empty string.
Presented ==
    {m.token : m \in auth.minted} \cup auth.made \cup Forged \cup {NoToken}

\* SpecAuth: registration and the token calls, as the clock advances.
NextAuth ==
    \/ /\ \E login \in Logins, cred \in Registrations \ {Plain("")} :
             Register(1, login, cred)
       /\ UNCHANGED <<http, now, main, auth>>
    \/ Return(1) /\ UNCHANGED <<http, now, main, auth>>
    \/ \E login \in Logins, passw \in Passwords : AuthenticateCall(login, passw)
    \/ \E t \in Presented : IdentityCall(t)
    \/ CreateJWTCall("u1")
    \/ \E t \in Presented : CheckJWTCall(t)
    \/ Tick

SpecAuth == Init /\ [][NextAuth]_vars

\* ------------------------------------------------------- damaged storage
\* The value a damaged column holds: no salt or nonce the program drew.
Damaged == "damaged"

\* A pieces row is changed outside the program (a damaged disk, a restored
\* backup, an edit by a database operator): its salt, its iv or its content
\* is no longer what StorePiece wrote.  This is the case the GCM tag of
\* RestorePiece exists for.
TamperPiece(column) ==
    /\ \E x \in pieces :
          /\ x.salt # Damaged /\ x.iv # Damaged /\ x.content.iv # Damaged
          /\ pieces' = (pieces \ {x}) \cup
                {CASE column = "salt" -> [x EXCEPT !.salt = Damaged]
                   [] column = "iv" -> [x EXCEPT !.iv = Damaged]
                   [] OTHER -> [x EXCEPT !.content.iv = Damaged]}
    /\ UNCHANGED <<identities, resources, blobs, files, seq, call, budget,
                   stored, deleted, http, now, main, auth>>

\* A value of resources.type that is neither ResourceTypePiece nor
\* ResourceTypeBlob.
UnknownType == 3

\* A resources row is changed outside the program: its type is none the
\* program writes.  This is the row the default branch of Delete's switch
\* exists for.
TamperResource ==
    /\ \E r \in resources :
          /\ r.type # UnknownType
          /\ resources' = (resources \ {r}) \cup {[r EXCEPT !.type = UnknownType]}
    /\ UNCHANGED <<identities, pieces, blobs, files, seq, call, budget,
                   stored, deleted, http, now, main, auth>>

\* SpecTamper: the storage API called by one client, over a database whose
\* rows may be damaged.
NextTamper ==
    \/ StorageStep(1, {"alice"}, {B64Hash("alice")}, {"alice"},
                   {[meta |-> "gmail", content |-> <<1>>]},
                   {[meta |-> "notes", content |-> <<1, NUL>>]},
                   {"s1"}, {"v1"})
    \/ \E column \in {"salt", "iv", "content"} : TamperPiece(column)
    \/ TamperResource

SpecTamper == Init /\ [][NextTamper]_vars

\* ---------------------------------------------------------------- router
\* Rest.router: the middleware chain in front of the routes.  rest.Ping
\* answers GET /ping itself; rest.BasicAuth, mounted after it, stands in
\* front of every route.

BasicOf(user, passw) == [user |-> user, passw |-> passw]

\* Storage.GetIdentity as Rest.Auth uses it: the rows found.
GetIdentity(login) == IdentityRows(login)

\* Rest.Auth: the identity exists and its stored password string is the
\* password of the header, compared as they are.
Auth(login, password) ==
    \E user \in GetIdentity(login) : user.passw = password

\* rest.BasicAuth(s.Auth) of github.com/go-pkgz/rest: 401 without Basic
\* credentials, 403 when the checker refuses them, 0 to pass the request on.
BasicAuth(basic) ==
    IF basic = NoBasic THEN 401
    ELSE IF ~Auth(basic.user, basic.passw) THEN 403
    ELSE 0

Reply(method, basic, status, body) ==
    http' = [http EXCEPT !.last =
        [Exchange(method, NoToken, "", 0, status, "", <<>>)
            EXCEPT !.basic = basic, !.body = body]]

\* GET /ping: answered by rest.Ping, before BasicAuth is reached.
RouterPing(basic) ==
    /\ Reply("GET /ping", basic, 200, "pong")
    /\ UNCHANGED <<dbvars, call, budget, stored, deleted, now, main, auth>>

\* GET /status: Rest.status behind BasicAuth; failed tells whether
\* Status.Get returned an error.
RouterStatus(basic, failed) ==
    /\ LET gate == BasicAuth(basic)
       IN  IF gate # 0 THEN Reply("GET /status", basic, gate, "")
           ELSE IF failed THEN Reply("GET /status", basic, 500, "")
           ELSE Reply("GET /status", basic, 200, "info")
    /\ UNCHANGED <<dbvars, call, budget, stored, deleted, now, main, auth>>

\* GET /echo: Rest.echo behind BasicAuth.
RouterEcho(basic) ==
    /\ LET gate == BasicAuth(basic)
       IN  IF gate # 0 THEN Reply("GET /echo", basic, gate, "")
           ELSE Reply("GET /echo", basic, 200, "echo")
    /\ UNCHANGED <<dbvars, call, budget, stored, deleted, now, main, auth>>

\* POST /register: Rest.Register behind BasicAuth.
RouterRegister(basic, login, passw) ==
    LET gate == BasicAuth(basic)
    IN  IF gate # 0
        THEN /\ Reply("POST /register", basic, gate, "")
             /\ UNCHANGED <<dbvars, call, budget, stored, deleted, now, main, auth>>
        ELSE HttpRegister(login, passw)

\* The Basic credentials a client may send.
Basics ==
    {NoBasic} \cup
    {BasicOf(user, passw) : user \in {"alice", "stas"},
                           passw \in {B64Hash("alice"), RawHash("?")}}

\* SpecRouter: requests to the server, through the middleware chain.
NextRouter ==
    \/ \E basic \in Basics : RouterPing(basic)
    \/ \E basic \in Basics, failed \in BOOLEAN : RouterStatus(basic, failed)
    \/ \E basic \in Basics : RouterEcho(basic)
    \/ \E basic \in Basics, login \in Logins,
          passw \in {B64Hash("alice"), Plain("alice")} :
          RouterRegister(basic, login, passw)

SpecRouter == Init /\ [][NextRouter]_vars

\* Tokens signed with the secret of Storage by another holder of it, whose
\* claims are not those Authenticate writes: no "sub", a number, "".
Crafted ==
    {SignedToken("HS256", Secret, sub, "", MaxTime + 1) :
        sub \in NotAString \cup {""}}

\* SpecIdentity: Storage.Identity given every kind of token.
NextIdentity ==
    \/ /\ Register(1, "alice", B64Hash("alice"))
       /\ UNCHANGED <<http, now, main, auth>>
    \/ Return(1) /\ UNCHANGED <<http, now, main, auth>>
    \/ AuthenticateCall("alice", "alice")
    \/ \E t \in Presented \cup Crafted : IdentityCall(t)
    \/ Tick

SpecIdentity == Init /\ [][NextIdentity]_vars

\* uuid.Nil.  A token without user_id claim unmarshals to it as well, so the
\* two are one value here.
NilUUID == ""

UUIDs == {"u1", NilUUID}

\* SpecJWT: the helpers of package lib, as the clock advances.
NextJWT ==
    \/ \E u \in UUIDs : CreateJWTCall(u)
    \/ \E t \in auth.made \cup Forged \cup {NoToken} : CheckJWTCall(t)
    \/ Tick

SpecJWT == Init /\ [][NextJWT]_vars

\* ===================================================== the server process
\* What --secret / $SECRET may hold: the unpadded base64 of "secret", and a
\* text with a character outside the alphabet after its first quantum.
ValidSecretText == "c2VjcmV0"

InvalidSecretText == "c2Vj*mV0"

SecretTexts == {ValidSecretText, InvalidSecretText}

\* What --lifespan / $LIFESPAN may hold, in seconds of the model's clock.
Lifespans == {1, DefaultLifespan}

\* base64.RawStdEncoding.DecodeString: the bytes decoded before the first
\* corrupt quantum come back together with the CorruptInputError.
RawStdDecodeString(text) ==
    CASE text = ValidSecretText -> [bytes |-> "secret", err |-> "nil"]
      [] text = InvalidSecretText ->
            [bytes |-> "sec", err |-> "illegal base64 data at input byte 4"]
      [] OTHER -> [bytes |-> "", err |-> "nil"]

\* main taking no error of Run for the orderly end of the server.
NeverServerClosed(err) == FALSE

\* main: err.Error() != "http: Server closed" is what makes an error of Run
\* fatal.
IsServerClosed(err) == err = "http: Server closed"

\* The process is running: it has neither returned from main nor exited.
Running == main.pc \notin {"returned", "os.Exit(1)", "log.Fatalf", "killed"}

\* flags.Parse: the options are filled in; --secret is required, without it
\* Parse fails and main exits with status 1.
Parse(given, secret, lifespan) ==
    /\ main.pc = "parse"
    /\ main' = IF given
               THEN [main EXCEPT !.pc = "go",
                        !.opts = [Secret |-> secret, Lifespan |-> lifespan]]
               ELSE [main EXCEPT !.pc = "os.Exit(1)"]
    /\ UNCHANGED <<dbvars, call, budget, stored, deleted, http, now, auth>>

\* main: ctx, cancel := context.WithCancel(...); go func() { ... }().
GoSignalHandler ==
    /\ main.pc = "go"
    /\ main' = [main EXCEPT !.pc = "connect", !.sig = "runnable"]
    /\ UNCHANGED <<dbvars, call, budget, stored, deleted, http, now, auth>>

\* The goroutine of main: signal.Notify(stop, os.Interrupt, SIGTERM), then it
\* blocks in <-stop.
Notify ==
    /\ Running
    /\ main.sig = "runnable"
    /\ main' = [main EXCEPT !.sig = "waiting"]
    /\ UNCHANGED <<dbvars, call, budget, stored, deleted, http, now, auth>>

\* SIGINT or SIGTERM reaches the process.  Before signal.Notify the default
\* action of the signal ends the process; after it the signal is put into
\* the channel stop, which holds one.  caught keeps where main was when the
\* goroutine's signal arrived.
Signal ==
    /\ Running
    /\ main.signals < MaxSignals
    /\ main' = IF main.sig \in {"none", "runnable"}
               THEN [main EXCEPT !.pc = "killed",
                                 !.signals = main.signals + 1]
               ELSE [main EXCEPT !.stop = (main.sig = "waiting") \/ main.stop,
                                 !.caught = IF main.sig = "waiting" /\ ~main.stop
                                            THEN main.pc ELSE @,
                                 !.signals = main.signals + 1]
    /\ UNCHANGED <<dbvars, call, budget, stored, deleted, http, now, auth>>

\* The goroutine of main: <-stop returns, cancel().
Cancel ==
    /\ Running
    /\ main.sig = "waiting"
    /\ main.stop
    /\ main' = [main EXCEPT !.sig = "done", !.stop = FALSE,
                            !.cancelled = TRUE]
    /\ UNCHANGED <<dbvars, call, budget, stored, deleted, http, now, auth>>

\* postgres.New: the pool and the migration, then
\*   return &Storage{cfg: cfg, db: pool}, nil
\* which leaves Storage.Secret nil and Storage.LifeSpan 0.  When it fails
\* main logs and exits with status 1.
New(ok) ==
    /\ main.pc = "connect"
    /\ main' = IF ok
               THEN [main EXCEPT !.pc = "decode",
                                 !.store = [Secret |-> "", LifeSpan |-> 0]]
               ELSE [main EXCEPT !.pc = "os.Exit(1)"]
    /\ UNCHANGED <<dbvars, call, budget, stored, deleted, http, now, auth>>

\* main:
\*   var secret, decodeErr = base64.RawStdEncoding.DecodeString(opts.Secret)
\*   if err != nil { log.Fatalf(...) }
\*   srv := server.Rest{..., Secret: secret, LifeSpan: opts.Lifespan}
\* err is the error of postgres.New, nil on this path; decodeErr is not
\* looked at.
DecodeSecret ==
    /\ main.pc = "decode"
    /\ LET newErr == "nil"
           secret == RawStdDecodeString(main.opts.Secret).bytes
       IN  main' = IF newErr # "nil"
                   THEN [main EXCEPT !.pc = "log.Fatalf"]
                   ELSE [main EXCEPT !.pc = "run",
                            !.rest = [Secret |-> secret,
                                      LifeSpan |-> main.opts.Lifespan]]
    /\ UNCHANGED <<dbvars, call, budget, stored, deleted, http, now, auth>>

\* Rest.Run up to ListenAndServe: the http.Server is built and the goroutine
\* waiting for ctx.Done() is started.
Run ==
    /\ main.pc = "run"
    /\ main' = [main EXCEPT !.pc = "listen", !.closer = "waiting"]
    /\ UNCHANGED <<dbvars, call, budget, stored, deleted, http, now, auth>>

\* The goroutine of Rest.Run: <-ctx.Done(), httpServer.Close().
Close ==
    /\ Running
    /\ main.closer = "waiting"
    /\ main.cancelled
    /\ main' = [main EXCEPT !.closer = "done", !.closed = TRUE]
    /\ UNCHANGED <<dbvars, call, budget, stored, deleted, http, now, auth>>

\* What main does with the error Run came back with.
AfterRun(err) ==
    IF err # "nil" /\ ~IsServerClosed(err) THEN "log.Fatalf" ELSE "returned"

\* httpServer.ListenAndServe starting: ErrServerClosed when the server is
\* closed already, the error of net.Listen when the address cannot be bound,
\* serving otherwise.
ListenAndServe(bound) ==
    /\ main.pc = "listen"
    /\ main' = IF main.closed
               THEN [main EXCEPT !.pc = AfterRun("http: Server closed")]
               ELSE IF ~bound
               THEN [main EXCEPT !.pc = AfterRun("listen tcp: address in use")]
               ELSE [main EXCEPT !.pc = "serving"]
    /\ UNCHANGED <<dbvars, call, budget, stored, deleted, http, now, auth>>

\* ListenAndServe returning ErrServerClosed after Close; Run returns it and
\* main returns.
ServeReturns ==
    /\ main.pc = "serving"
    /\ main.closed
    /\ main' = [main EXCEPT !.pc = AfterRun("http: Server closed")]
    /\ UNCHANGED <<dbvars, call, budget, stored, deleted, http, now, auth>>

\* The key of a Storage: its field Secret, for signing and for the keyfunc
\* of Identity alike.
KeyOf(storage) == [kind |-> "bytes", value |-> storage.Secret, err |-> "nil"]

\* Storage.Authenticate of the Storage main built, at time at: "exp" is
\* at + p.LifeSpan, the key is p.Secret.
AuthenticateOf(storage, c, at) ==
    LET e == checkPass(c)
    IN  IF e = "nil"
        THEN [err |-> "nil",
              token |-> SignedToken("HS256", storage.Secret, c.Passw, "",
                                    at + storage.LifeSpan)]
        ELSE [err |-> e, token |-> NoToken]

\* Storage.Identity of the Storage main built, at time at.
IdentityOf(storage, t, at) ==
    IF ~(t.alg # "" /\ MapClaimsValid(t, at) /\ Verify(t, KeyOf(storage)))
    THEN "ErrUserUnauthorized"
    ELSE IF t.sub \in NotAString THEN "panic"
    ELSE IF t.sub = "" THEN "ErrUserUnauthorized"
    ELSE "nil"

\* A login served by the running server.
ServeLogin(c) ==
    /\ main.pc = "serving"
    /\ ~main.closed
    /\ Cardinality(main.minted) < MaxTokens
    /\ LET r == AuthenticateOf(main.store, c, now)
       IN  main' = [main EXCEPT
                      !.minted = IF r.err = "nil"
                                 THEN @ \cup {[token |-> r.token, at |-> now]}
                                 ELSE @,
                      !.last = [op |-> "Authenticate", token |-> r.token,
                                at |-> now, err |-> r.err]]
    /\ UNCHANGED <<dbvars, call, budget, stored, deleted, http, now, auth>>

\* A token a client makes without knowing any secret: HS256 under the key
\* of no bytes.
EmptyKeyToken == SignedToken("HS256", "", "alice", "", MaxTime + 1)

\* A token presented to the running server.
ServeIdentity(t) ==
    /\ main.pc = "serving"
    /\ ~main.closed
    /\ main' = [main EXCEPT
                  !.last = [op |-> "Identity", token |-> t, at |-> now,
                            err |-> IdentityOf(main.store, t, now)]]
    /\ UNCHANGED <<dbvars, call, budget, stored, deleted, http, now, auth>>

\* SpecMain: the server process from flags.Parse to the return of main, with
\* alice registered in the database it connects to.
InitMain == InitWith({[id |-> "alice", passw |-> B64Hash("alice")]})

NextMain ==
    \/ \E given \in BOOLEAN, secret \in SecretTexts, lifespan \in Lifespans :
          Parse(given, secret, lifespan)
    \/ GoSignalHandler
    \/ Notify
    \/ Signal
    \/ Cancel
    \/ \E ok \in BOOLEAN : New(ok)
    \/ DecodeSecret
    \/ Run
    \/ Close
    \/ \E bound \in BOOLEAN : ListenAndServe(bound)
    \/ ServeReturns
    \/ \E passw \in Passwords : ServeLogin(Creds("alice", passw))
    \/ \E t \in {m.token : m \in main.minted} \cup {EmptyKeyToken} :
          ServeIdentity(t)
    \/ Tick

SpecMain == InitMain /\ [][NextMain]_vars

\* SpecMainFair: the Go scheduler runs a goroutine that can run, so the
\* signal goroutine, the goroutine of Run and main itself take their steps.
SpecMainFair ==
    /\ SpecMain
    /\ WF_vars(Cancel)
    /\ WF_vars(Close)
    /\ WF_vars(ServeReturns)
    /\ WF_vars(\E bound \in BOOLEAN : ListenAndServe(bound))

\* ================================================================== claims
StoredAs(rid) == {s \in stored : s.rid = rid}

\* The caller of p's request presents the login and password rid was stored with.
SameCreds(p, s) == call[p].login = s.login /\ call[p].passw = s.passw

\* C1: a RestorePiece of a rid that StorePiece returned, by the same login
\* with the same password, returns the meta and the plaintext bytes that
\* were stored, as long as no Delete of the rid has committed.
C1_PieceRoundTrip ==
    \A p \in Procs : \A s \in StoredAs(call[p].rid) :
        ( /\ IsDone(p, "RestorePiece")
          /\ s.type = ResourceTypePiece
          /\ SameCreds(p, s)
          /\ s.rid \notin deleted )
        => /\ call[p].err = "nil"
           /\ call[p].retMeta = s.meta
           /\ call[p].retContent = s.content

C1_Witness ==
    \E p \in Procs : \E s \in StoredAs(call[p].rid) :
        /\ IsDone(p, "RestorePiece")
        /\ s.type = ResourceTypePiece
        /\ SameCreds(p, s)
        /\ s.rid \notin deleted
        /\ call[p].retContent = <<1, NUL>>
        /\ Cardinality(pieces) = 2

\* The file the blob resource s was written to is still in the directory.
FilePresent(s) == OpenFile(s.loc) # {}

ListStep(p) == call[p].pc = "idle" /\ call'[p].op = "List" /\ call'[p].pc = "done"

\* The resources stored by login whose Delete has not committed.
LiveOf(login) == {s \in stored : s.login = login /\ s.rid \notin deleted}

\* C5: List returns exactly the (rid, kind, meta) of the live resources
\* owned by the calling login: none of a different login, none missing,
\* none of a store whose transaction is not committed, none deleted.
C5_ListExact ==
    [][\A p \in Procs :
          ListStep(p) =>
              call'[p].retList =
                  {[ID |-> s.rid, Type |-> s.type, Meta |-> s.meta] :
                      s \in LiveOf(call'[p].login)}]_vars

C5_Witness ==
    \E p \in Procs :
        /\ IsDone(p, "List")
        /\ call[p].retList # {}
        /\ LiveOf(call[p].login) # {}
        /\ \E s \in stored : s.login # call[p].login /\ s.rid \notin deleted
        /\ \E q \in Procs : call[q].op = "Delete" /\ call[q].pc = "commit"

\* C9: in every committed database state every pieces row and every blobs
\* row is referenced by exactly one resources row of the matching type, and
\* every resources row references an existing row of its payload table.
C9_NoOrphanRows ==
    /\ \A x \in pieces :
          Cardinality({r \in resources : r.type = ResourceTypePiece
                                          /\ r.resource = x.id}) = 1
    /\ \A b \in blobs :
          Cardinality({r \in resources : r.type = ResourceTypeBlob
                                          /\ r.resource = b.id}) = 1
    /\ \A r \in resources :
          \/ r.type = ResourceTypePiece /\ SelectPiece(r.resource) # {}
          \/ r.type = ResourceTypeBlob /\ SelectBlob(r.resource) # {}

C9_Witness ==
    /\ deleted # {}
    /\ budget.faults > 0
    /\ pieces # {}
    /\ \E p \in Procs : call[p].op = "Delete" /\ call[p].pc = "commit"
                          /\ call[p].typ = ResourceTypePiece

\* C4 as stated: a RestorePiece or RestoreBlob of another login's rid, with
\* the caller's own correct password, returns Unauthorized or
\* ResourceNotFound, never the payload and never another kind of error.
C4_OwnerIsolationOnRead ==
    \A p \in Procs : \A s \in StoredAs(call[p].rid) :
        ( /\ call[p].pc = "done"
          /\ call[p].op \in {"RestorePiece", "RestoreBlob"}
          /\ s.login # call[p].login
          /\ checkPass(CredsOf(call[p])) = "nil" )
        => /\ call[p].err \in {"ErrUserUnauthorized", "ErrResourceNotFound"}
           /\ call[p].retContent = <<>>

\* The request p has just run the first statements of Delete during this step.
DeleteStep(p) == call[p].pc = "idle" /\ call'[p].op = "Delete"

\* C6 as stated: a Delete of a rid owned by another login returns
\* ResourceNotFound and leaves the owner's rows and file unchanged.
C6_DeleteByNonOwner ==
    [][\A p \in Procs : \A s \in StoredAs(call'[p].rid) :
          (DeleteStep(p) /\ s.login # call'[p].login /\ budget' = budget)
          => /\ call'[p].pc = "done"
             /\ call'[p].err = "ErrResourceNotFound"
             /\ UNCHANGED <<resources, pieces, blobs, files>>]_vars

\* No row and no file of a resource whose Delete committed remains.
NothingRemainsOf(s) ==
    /\ \A r \in resources : r.id # s.rid
    /\ s.type = ResourceTypePiece => SelectPiece(s.pid) = {}
    /\ s.type = ResourceTypeBlob => SelectBlob(s.pid) = {} /\ ~FilePresent(s)

\* C8 as stated: after the owner's Delete returned Ok nothing of the
\* resource remains, and a second Delete of the same rid by the owner
\* returns ResourceNotFound and changes nothing.
C8_IdempotentDelete ==
    /\ [](\A s \in stored : s.rid \in deleted => NothingRemainsOf(s))
    /\ [][\A p \in Procs : \A s \in StoredAs(call'[p].rid) :
             ( /\ DeleteStep(p)
               /\ s.login = call'[p].login
               /\ s.rid \in deleted
               /\ budget' = budget )
             => /\ call'[p].pc = "done"
                /\ call'[p].err = "ErrResourceNotFound"
                /\ UNCHANGED <<resources, pieces, blobs, files>>]_vars

\* C10 as stated: in every observable state every blobs row has exactly one
\* file at the location it names.
C10_BlobRowHasFile ==
    \A b \in blobs : Cardinality(OpenFile(b.location)) = 1

\* C2 as stated: when PUT /vault/piece with content = base64(B) returned a
\* rid, GET /vault/piece/{rid} with the same token and X-Password answers 200
\* with the same meta and a content field that decodes to exactly B.
C2_HttpPieceRoundTrip ==
    \A put \in http.puts :
        ( /\ http.last.method = "GET /vault/piece"
          /\ http.last.rid = put.rid
          /\ http.last.token = put.token
          /\ http.last.xpw = put.xpw )
        => /\ http.last.status = 200
           /\ http.last.meta = put.meta
           /\ DecodeString(http.last.content) = DecodeString(put.text)

\* The last token call was Identity on a token that Authenticate minted as
\* m, made before the token's expiry.
IdentifiedUnexpired(m) ==
    /\ auth.last.op = "Identity"
    /\ auth.last.token = m.token
    /\ auth.last.at < m.token.exp

\* C11 as stated: Identity of the token Authenticate(login, password)
\* returned gives that login, and no other value, while the token is
\* unexpired.
C11_SubjectIsLogin ==
    \A m \in auth.minted :
        IdentifiedUnexpired(m)
        => auth.last.err = "nil" /\ auth.last.login = m.login

\* The token's signature is valid under the server secret.
SignedByServer(t) == t.alg \in HMACAlgs /\ t.key = Secret

\* C12 as stated: Identity succeeds if and only if the token's signature is
\* valid under the server secret and now < expiry.
C12_TokenValidity ==
    auth.last.op = "Identity"
    => ( auth.last.err = "nil"
         <=> ( SignedByServer(auth.last.token)
               /\ auth.last.at < auth.last.token.exp ) )

\* The token's header names a signing algorithm that is not HMAC.
NonHMAC(t) == t.alg # "" /\ t.alg \notin HMACAlgs

\* C13: a token whose header names a signing algorithm other than HMAC is
\* rejected whatever its claims and signature: Identity returns
\* Unauthorized, CheckJWT returns an "unexpected signing method" error.
C13_AlgorithmConfusion ==
    NonHMAC(auth.last.token)
    => /\ auth.last.op = "Identity" => auth.last.err = "ErrUserUnauthorized"
       /\ auth.last.op = "CheckJWT" =>
              auth.last.err = "unexpected signing method" /\ auth.last.uid = ""

C13_Witness ==
    /\ auth.last.op = "Identity"
    /\ auth.last.token.alg = "none"
    /\ auth.last.token.sub # ""
    /\ auth.last.at <= auth.last.token.exp
    /\ checkPass(Creds(auth.last.token.sub, auth.last.token.sub)) = "nil"
    /\ auth.last.err = "ErrUserUnauthorized"

\* C14 as stated: after Register(login, password) succeeded for a non-empty
\* login and password, the stored credential is the base64 of a hash of the
\* password, and Authenticate(login, password) succeeds.
C14_RegisterThenLogin ==
    [][\A login \in Logins, passw \in Passwords \ {""} :
          (Register(1, login, Plain(passw)) /\ call'[1].err = "nil")
          => /\ \A i \in identities' :
                    i.id = login => i.passw = B64Hash(passw)
             /\ (checkPass(Creds(login, passw)))' = "nil"]_vars

\* C15: registering a login that already exists fails with UniqueViolation,
\* which POST /register answers 409; the credential stored for that login stays
\* as it was, and at no time do two identities share a login.
C15_DuplicateRegistration ==
    /\ [](\A i, j \in identities : i.id = j.id => i = j)
    /\ [][\A i \in identities : i \in identities']_vars
    /\ [][\A login \in Logins \cup {"stas"}, passw \in Registrations \ {Plain("")} :
             (HttpRegister(login, passw) /\ IdentityRows(login) # {})
                 => (http'.last.status = 409 /\ identities' = identities)]_vars

\* A registration was answered 409 while a registered login exists.
C15_Witness ==
    /\ http.last.method = "POST /register"
    /\ http.last.status = 409
    /\ \E i \in identities : i.id \in Logins

\* C16: POST /login with a login that is not registered, or with a password
\* that is not the registered one, is answered 401 and hands out no token.
C16_LoginFailureIs401 ==
    [][\A login \in Logins \cup {"stas"}, passw \in Passwords \ {""} :
         (HttpLogin(login, passw) /\ checkPass(Creds(login, passw)) # "nil")
             => (http'.last.status = 401 /\ http'.tokens = http.tokens)]_vars

\* The login has no identity row.
UnknownLogin(login) == IdentityRows(login) = {}

\* The login is registered with the base64 bcrypt hash of another password.
WrongPassword(login, passw) ==
    \E i \in IdentityRows(login) :
        /\ i.passw.form = "b64hash"
        /\ i.passw.of # passw

\* C17: Authenticate fails the same way, with Unauthorized, for a login that
\* is not registered and for a registered login given a wrong password.
C17_SameFailure ==
    [][\A login \in Logins, passw \in Passwords :
         (/\ AuthenticateCall(login, passw)
          /\ UnknownLogin(login) \/ WrongPassword(login, passw))
             => auth'.last.err = "ErrUserUnauthorized"]_vars

\* The token was handed out by POST /login to the login, Identity accepts it,
\* and xpw is the password the login is registered with.
SessionOf(login, token, xpw) ==
    /\ [login |-> login, token |-> token] \in http.issued
    /\ Identity(token).err = "nil"
    /\ checkPass(Creds(login, xpw)) = "nil"

\* The login owns a resource rid of the type.
Owns(login, rid, type) ==
    \E r \in resources : r.id = rid /\ r.owner = login /\ r.type = type

\* C18: GET /vault/piece/{rid} and GET /vault/blob/{rid}, with a valid token
\* and the right password, answer 404 when the login of the token owns no such
\* resource.
C18_NotFoundIs404 ==
    [][\A login \in Logins, token \in http.tokens, rid \in Rids :
         /\ (/\ HttpGetPiece(token, "alice", rid)
             /\ SessionOf(login, token, "alice")
             /\ ~Owns(login, rid, ResourceTypePiece))
                => http'.last.status = 404
         /\ (/\ HttpGetBlob(token, "alice", rid)
             /\ SessionOf(login, token, "alice")
             /\ ~Owns(login, rid, ResourceTypeBlob))
                => http'.last.status = 404]_vars

\* C19: PUT /vault/piece with a valid token of a login and that login's
\* password in X-Password is answered 201 with a fresh rid, and stores a piece
\* the login owns, sealed under the key derived from that password.
C19_PutPieceStores ==
    [][\A login \in Logins, token \in http.tokens :
         (/\ HttpPutPiece(token, "alice", "gmail", EncodeToString(<<1>>),
                          "s1", "v1")
          /\ SessionOf(login, token, "alice"))
             => /\ http'.last.status = 201
                /\ \A r \in resources : r.id # http'.last.rid
                /\ \E r \in resources' \ resources :
                      /\ r.id = http'.last.rid
                      /\ r.owner = login
                      /\ r.type = ResourceTypePiece
                      /\ \E x \in pieces' \ pieces :
                            /\ x.id = r.resource
                            /\ OpenOk(pbkdf2Key("alice", x.salt), x.iv,
                                      x.content)]_vars

\* C20: a PUT /vault/piece or PUT /vault/blob creates a resource only when it
\* carries a token Identity accepts, and the resource is owned by the login
\* Identity returns for that token.
C20_WritesNeedSession ==
    [][\A r \in resources' \ resources :
         http'.last.method \in {"PUT /vault/piece", "PUT /vault/blob"}
             => /\ Identity(http'.last.token).err = "nil"
                /\ r.owner = Identity(http'.last.token).creds.Login]_vars

\* C21: CreateJWT succeeds with a non-empty token for every user UUID, the
\* nil UUID included, and CheckJWT of a token CreateJWT made returns its UUID
\* without error as long as the token has not expired.
C21_JWTRoundTrip ==
    /\ auth.last.op = "CreateJWT"
       => /\ auth.last.err = "nil"
          /\ auth.last.token # NoToken
          /\ auth.last.token.uid = auth.last.uid
    /\ (/\ auth.last.op = "CheckJWT"
        /\ auth.last.token \in auth.made
        /\ auth.last.at < auth.last.token.exp)
       => /\ auth.last.err = "nil"
          /\ auth.last.uid = auth.last.token.uid

\* CheckJWT returned the nil UUID of a token made for it, a second after the
\* token was made.
C21_Witness ==
    /\ auth.last.op = "CheckJWT"
    /\ auth.last.token \in auth.made
    /\ auth.last.token.uid = NilUUID
    /\ auth.last.at = auth.last.token.exp - 1
    /\ auth.last.err = "nil"
    /\ auth.last.uid = NilUUID

\* C22: GET /ping and GET /status sent without credentials are answered 200,
\* /ping with the body "pong"; the authentication middleware does not reject
\* them.
C22_PingAndStatusOpen ==
    [][/\ RouterPing(NoBasic)
           => (http'.last.status = 200 /\ http'.last.body = "pong")
       /\ RouterStatus(NoBasic, FALSE) => http'.last.status = 200]_vars

\* Process p returns from a Restore of a resource its login stored, with the
\* password it was stored under, while q is inside the transaction of a
\* Delete of the same rid by the same login.
RestoreReturnsDuringDelete(p, q, s) ==
    /\ p # q
    /\ call[p].op \in {"RestorePiece", "RestoreBlob"}
    /\ call[p].pc # "done" /\ call'[p].pc = "done"
    /\ call[q].op = "Delete"
    /\ call[q].pc \in {"delete_payload", "commit"}
    /\ call[q].rid = call[p].rid /\ call[q].login = call[p].login
    /\ s.rid = call[p].rid /\ s.login = call[p].login
    /\ s.passw = call[p].passw
    /\ s.type = (IF call[p].op = "RestorePiece" THEN ResourceTypePiece
                                                 ELSE ResourceTypeBlob)

\* C23: a Restore racing with a Delete of the same rid by its owner returns
\* ResourceNotFound, or succeeds with the whole payload that was stored;
\* it returns no other error.
C23_DeleteRestoreRace ==
    [][\A p, q \in Procs : \A s \in stored :
         RestoreReturnsDuringDelete(p, q, s)
             => \/ call'[p].err = "ErrResourceNotFound"
                \/ /\ call'[p].err = "nil"
                   /\ call'[p].retMeta = s.meta
                   /\ call'[p].retContent = s.content]_vars

\* C24: when the transaction of StoreBlob fails after the encrypted file was
\* written, the call returns the error, adds no blobs or resources row, and
\* the file at its location is gone.
C24_StoreBlobTxnFailure ==
    [][\A p \in Procs :
         (/\ call[p].op = "StoreBlob" /\ call[p].pc = "txn"
          /\ call'[p].pc = "done" /\ call'[p].err # "nil")
             => /\ blobs' = blobs
                /\ resources' = resources
                /\ call'[p].retRid = -1
                /\ \A f \in files' : f.location # call[p].loc]_vars

\* C25: when writing or closing the file of StoreBlob fails, the call returns
\* the error, inserts no rows, and leaves no file at the location it wrote to.
C25_StoreBlobUploadAbort ==
    [][\A p \in Procs :
         (/\ call[p].op = "StoreBlob" /\ call[p].pc = "write_file"
          /\ call'[p].pc = "done")
             => /\ call'[p].err # "nil"
                /\ blobs' = blobs
                /\ resources' = resources
                /\ \A f \in files' : f.location # seq.uuid]_vars

\* C26: when Delete of a blob resource fails to unlink the file, the error is
\* returned and, the transaction being rolled back, the resources row and the
\* blobs row are still there: the resource is still listed to its owner.
C26_DeleteUnlinkFailure ==
    [][\A p \in Procs :
         (/\ call[p].op = "Delete" /\ call[p].pc = "delete_payload"
          /\ call[p].typ = ResourceTypeBlob
          /\ call'[p].pc = "done" /\ call'[p].err = "FsError")
             => /\ resources' = resources
                /\ blobs' = blobs
                /\ \E r \in resources' :
                      /\ r.id = call[p].rid /\ r.owner = call[p].login
                      /\ \E b \in blobs' : b.id = r.resource
                      /\ \E x \in (ListQuery(call[p].login))' : x.ID = r.id]_vars

\* A Delete of a blob returned the unlink error; the file is still there, and
\* so are both rows.
C26_Witness ==
    \E p \in Procs :
        /\ IsDone(p, "Delete")
        /\ call[p].err = "FsError"
        /\ \E r \in resources :
              /\ r.id = call[p].rid /\ r.owner = call[p].login
              /\ r.type = ResourceTypeBlob
              /\ \E b \in SelectBlob(r.resource) : OpenFile(b.location) # {}

\* C27: a resource has no state between absent and live.  Whenever List
\* returns a rid to its owner, a Restore of that rid by the owner with the
\* password it was stored under succeeds and returns what was stored.
C27_ListedIsRestorable ==
    \A s \in stored :
        (\E x \in ListQuery(s.login) : x.ID = s.rid)
            => LET creds == Creds(s.login, s.passw)
                   got == IF s.type = ResourceTypePiece
                          THEN RestorePiece(s.rid, creds)
                          ELSE RestoreBlob(s.rid, creds)
               IN  /\ got.err = "nil"
                   /\ got.meta = s.meta
                   /\ got.content = s.content

\* The rid is a blob resource the login stored.
BlobResourceOf(rid, login) ==
    \E s \in stored :
        s.rid = rid /\ s.login = login /\ s.type = ResourceTypeBlob

\* C28: RestoreBlob reads a blobs row and its file, and returns a stream, only
\* for the rid of a blob resource owned by the calling login, and the row it
\* reads is the one that resource references; given the rid of a piece it
\* reads no blobs row.
C28_NoCrossKindRestore ==
    \A p \in Procs :
        (/\ call[p].op = "RestoreBlob"
         /\ \/ call[p].pc = "open_file"
            \/ call[p].pc = "done" /\ call[p].err = "nil")
            => /\ BlobResourceOf(call[p].rid, call[p].login)
               /\ call[p].pc = "open_file" =>
                     \E s \in stored : /\ s.rid = call[p].rid
                                       /\ s.pid = call[p].pid
                                       /\ s.loc = call[p].loc

\* C29: when the GCM tag check of RestorePiece fails, the stored content, iv
\* or salt not matching the key derived from the presented password, the call
\* returns an error of the Unauthorized class, which the handler answers 401,
\* and no plaintext.
C29_DecryptFailureIsUnauthorized ==
    [][\A p \in Procs : \A r \in SelectPiece(call[p].pid) :
         (/\ RestorePieceSelectPiece(p)
          /\ ~OpenOk(RestorePieceKey(call[p].passw, r), r.iv, r.content))
             => /\ call'[p].err = "ErrUserUnauthorized"
                /\ VaultStatus(call'[p].err) = 401
                /\ call'[p].retContent = <<>>]_vars

\* The token is one Identity has to refuse at the time: malformed, not signed
\* with the secret of Storage, expired, or without a non-empty string "sub".
Refusable(t, at) ==
    \/ t.alg = ""
    \/ ~Verify(t, IdentityKey(t))
    \/ ~MapClaimsValid(t, at)
    \/ t.sub \in NotAString \cup {""}

\* C30: for every token Identity has to refuse it returns Unauthorized, as an
\* error value: it does not panic, returns no other error and no login.
C30_IdentityTotal ==
    (auth.last.op = "Identity" /\ Refusable(auth.last.token, auth.last.at))
        => /\ auth.last.err = "ErrUserUnauthorized"
           /\ auth.last.login = ""

C32_SecretWiring ==
    main.pc \in {"listen", "serving"} =>
        /\ KeyOf(main.store).value = RawStdDecodeString(main.opts.Secret).bytes
        /\ KeyOf(main.store).value # ""
        /\ \A m \in main.minted : m.token.key = KeyOf(main.store).value

\* C34  Invalid secret aborts startup: when the configured secret is not
\* valid base64 the server never gets to serve (it has ended with a fatal
\* error before it listens), so it never runs with a partially decoded secret.
C34_InvalidSecretAborts ==
    RawStdDecodeString(main.opts.Secret).err # "nil" =>
        main.pc # "serving"

\* C35  Graceful shutdown: once SIGINT or SIGTERM has been delivered to the
\* signal goroutine while the server serves, the context is cancelled, the
\* HTTP server is closed, Run returns and main returns without a fatal
\* error.
C35_GracefulShutdown ==
    (main.pc = "serving" /\ main.stop)
        ~> (main.pc = "returned" /\ main.cancelled /\ main.closed)

\* main has returned after a signal caught while serving.
C35_Witness ==
    /\ main.pc = "returned"
    /\ main.caught = "serving"
    /\ main.cancelled
    /\ main.closed

\* C33  Database errors are surfaced, not fatal: no storage operation ends
\* the server process; a List whose query failed and a Delete that met a row
\* of unknown type return to their caller with an error.
C33_NoStorageCallIsFatal ==
    \A p \in Procs :
        /\ call[p].pc # "os.Exit(1)"
        /\ call[p].err # "log.Fatal"

====
